---- MODULE Spec2Model ----
(***************************************************************************)
(* A model of piston/resource.py: the default CRUD behaviours of           *)
(* BaseModelResource over a table of records, the field selector           *)
(* get_fields, the permission model of PermissionsResource/BaseResource    *)
(* and the dispatch pipeline of BaseResource with its response cache.      *)
(***************************************************************************)
EXTENDS Integers, Sequences, FiniteSets, TLC

(***************************************************************************)
(* The table behind self.model: records with a primary key "id" and one    *)
(* other column "name".                                                    *)
(***************************************************************************)
MaxId == 2

Ids == 1..MaxId

\* The pk of an instance that has not been saved yet (Python's None).
NonePk == 0

\* Values of the column "name"; "" is what the column holds when the
\* constructor is given no value for it.
Names == {"", "x"}

DefaultName == ""

pkfield == "id"

Records == [id : Ids, name : Names]

\* Keyword dictionaries: the flattened request body (attrs) and **kwargs.
Dicts ==
    {<<>>} \cup {[id |-> i] : i \in Ids} \cup {[name |-> n] : n \in Names}
           \cup {[id |-> i, name |-> n] : i \in Ids, n \in Names}

\* The keyword parameters update() and a pk read() look at: the pk or nothing.
PkDicts == {<<>>} \cup {[id |-> i] : i \in Ids}

\* The sentinels of piston.utils.rc, with the status code each carries.
rc(name) ==
    [kind |-> "rc", name |-> name,
     status |-> CASE name = "ALL_OK" -> 200
                  [] name = "DELETED" -> 204
                  [] name = "BAD_REQUEST" -> 400
                  [] name = "NOT_FOUND" -> 404
                  [] name = "NOT_HERE" -> 404
                  [] name = "DUPLICATE_ENTRY" -> 409
                  [] name = "UNSUPPORTED_MEDIA_TYPE" -> 415]

Raise(exc) == [kind |-> "raise", exc |-> exc]

Inst(r) == [kind |-> "inst", rec |-> r]

\* QuerySet.filter(**crit) evaluated on table st.
Matching(st, crit) == {r \in st : \A k \in DOMAIN crit : r[k] = crit[k]}

\* QuerySet.get(**crit): the one match, DoesNotExist or MultipleObjectsReturned.
get(st, crit) ==
    LET m == Matching(st, crit)
    IN  IF m = {} THEN Raise("DoesNotExist")
        ELSE IF Cardinality(m) > 1 THEN Raise("MultipleObjectsReturned")
        ELSE Inst(CHOOSE r \in m : TRUE)

\* self.model(**attrs): an unsaved instance; columns not given take their default.
model(attrs) ==
    [id   |-> IF "id" \in DOMAIN attrs THEN attrs.id ELSE NonePk,
     name |-> IF "name" \in DOMAIN attrs THEN attrs.name ELSE DefaultName]

\* inst.save(): an instance without pk is inserted under the fresh pk newid;
\* one with a pk replaces the row of that pk, or is inserted when there is none.
save(st, inst, newid) ==
    LET r == IF inst.id = NonePk THEN [inst EXCEPT !.id = newid] ELSE inst
    IN  [store |-> {s \in st : s.id # r.id} \cup {r}, inst |-> r]

\* The pks the table can hand out to a new row.
FreshIds(st) == {i \in Ids : \A r \in st : r.id # i}

flatten_dict(dct) == [k \in DOMAIN dct |-> dct[k]]

(***************************************************************************)
(* BaseModelResource: each method as the pair of the table it leaves and   *)
(* the value it returns (or the exception it raises).                      *)
(***************************************************************************)
exists(st, kwargs) ==
    LET g == get(st, kwargs)
    IN  [store |-> st,
         result |-> IF g.kind = "inst" THEN [kind |-> "bool", val |-> TRUE]
                    ELSE IF g.exc = "DoesNotExist" THEN [kind |-> "bool", val |-> FALSE]
                    ELSE g]

\* read that hands out a one-shot iterator over the matches in place of the
\* QuerySet.
read_one_shot(st, kwargs) ==
    IF pkfield \in DOMAIN kwargs
    THEN LET g == get(st, [id |-> kwargs[pkfield]])
         IN  [store |-> st,
              result |-> IF g.kind = "inst" THEN g
                         ELSE IF g.exc = "DoesNotExist" THEN rc("NOT_FOUND")
                         ELSE rc("BAD_REQUEST")]
    ELSE [store |-> st, result |-> [kind |-> "iterator", crit |-> kwargs]]

read(st, kwargs) ==
    IF pkfield \in DOMAIN kwargs
    THEN LET g == get(st, [id |-> kwargs[pkfield]])
         IN  [store |-> st,
              result |-> IF g.kind = "inst" THEN g
                         ELSE IF g.exc = "DoesNotExist" THEN rc("NOT_FOUND")
                         ELSE rc("BAD_REQUEST")]
    ELSE [store |-> st, result |-> [kind |-> "QuerySet", crit |-> kwargs]]

\* Iterating the collection a read returned, given the table and what the
\* earlier iterations of the same collection yielded. A QuerySet runs its
\* query at the first iteration and keeps the rows for the later ones; an
\* iterator is exhausted by the first iteration.
iterate(result, st, yielded) ==
    IF yielded = <<>> THEN Matching(st, result.crit)
    ELSE IF result.kind = "QuerySet" THEN yielded[1]
    ELSE {}

\* How often a returned collection is iterated.
MaxIter == 2

\* The two steps of create that touch the table: the duplicate check (the
\* get of line 250, with the outcome of create when it ends there) and the
\* save of the new instance (lines 253-255).
create_check(st, data) ==
    LET g == get(st, flatten_dict(data))
    IN  IF g.kind = "raise" /\ g.exc = "DoesNotExist"
        THEN [ends |-> FALSE, result |-> [kind |-> "none"]]
        ELSE [ends |-> TRUE, result |-> rc("DUPLICATE_ENTRY")]

create_save(st, data, newid) ==
    LET s == save(st, model(flatten_dict(data)), newid)
    IN  [store |-> s.store, result |-> Inst(s.inst)]

\* create without the duplicate check.
create_unchecked(st, data, newid) ==
    LET s == save(st, model(flatten_dict(data)), newid)
    IN  [store |-> s.store, result |-> Inst(s.inst)]

create(st, data, newid) ==
    LET attrs == flatten_dict(data)
        g == get(st, attrs)
    IN  IF g.kind = "inst" THEN [store |-> st, result |-> rc("DUPLICATE_ENTRY")]
        ELSE IF g.exc = "DoesNotExist"
        THEN LET s == save(st, model(attrs), newid)
             IN  [store |-> s.store, result |-> Inst(s.inst)]
        ELSE [store |-> st, result |-> rc("DUPLICATE_ENTRY")]

\* update that looks the record up without checking that a pk was given.
update_unguarded(st, kwargs, data, newid) ==
    LET g == IF pkfield \in DOMAIN kwargs THEN get(st, [id |-> kwargs[pkfield]])
             ELSE Raise("DoesNotExist")
    IN  IF g.kind = "raise"
        THEN [store |-> st, result |-> rc("NOT_FOUND")]
        ELSE LET attrs == flatten_dict(data)
                 inst == [k \in DOMAIN g.rec |->
                            IF k \in DOMAIN attrs THEN attrs[k] ELSE g.rec[k]]
             IN  [store |-> save(st, inst, newid).store, result |-> rc("ALL_OK")]

update(st, kwargs, data, newid) ==
    IF pkfield \notin DOMAIN kwargs
    THEN [store |-> st, result |-> rc("BAD_REQUEST")]
    ELSE LET g == get(st, [id |-> kwargs[pkfield]])
         IN  IF g.kind = "raise"
             THEN [store |-> st,
                   result |-> IF g.exc = "DoesNotExist" THEN rc("NOT_FOUND")
                              ELSE rc("BAD_REQUEST")]
             ELSE LET attrs == flatten_dict(data)
                      inst == [k \in DOMAIN g.rec |->
                                 IF k \in DOMAIN attrs THEN attrs[k] ELSE g.rec[k]]
                  IN  [store |-> save(st, inst, newid).store, result |-> rc("ALL_OK")]

\* delete that removes every match (filter(...).delete()).
delete_all_matching(st, kwargs) ==
    LET m == Matching(st, kwargs)
    IN  IF m = {} THEN [store |-> st, result |-> rc("NOT_HERE")]
        ELSE [store |-> st \ m, result |-> rc("DELETED")]

\* delete that answers a miss with the sentinel read and update use.
delete_not_found(st, kwargs) ==
    LET g == get(st, kwargs)
    IN  IF g.kind = "inst"
        THEN [store |-> {r \in st : r.id # g.rec.id}, result |-> rc("DELETED")]
        ELSE IF g.exc = "MultipleObjectsReturned"
        THEN [store |-> st, result |-> rc("DUPLICATE_ENTRY")]
        ELSE [store |-> st, result |-> rc("NOT_FOUND")]

delete(st, kwargs) ==
    LET g == get(st, kwargs)
    IN  IF g.kind = "inst"
        THEN [store |-> {r \in st : r.id # g.rec.id}, result |-> rc("DELETED")]
        ELSE IF g.exc = "MultipleObjectsReturned"
        THEN [store |-> st, result |-> rc("DUPLICATE_ENTRY")]
        ELSE [store |-> st, result |-> rc("NOT_HERE")]

(***************************************************************************)
(* The field selector: BaseModelResource.get_fields.                       *)
(* Header values are strings, modelled as sequences of characters; a field *)
(* name is a string too, so the name a is <<"a">>.                         *)
(***************************************************************************)
MaxHeaderLen == 3

MaxExtraLen == 2

Chars == {"a", "b", ","}

Strings(n) == UNION {[1..k -> Chars] : k \in 0..n}

FieldNames == {<<"a">>, <<"b">>}

Range(seq) == {seq[i] : i \in DOMAIN seq}

\* A field declaration: a tuple of field names without repetition.
Decls == {<<>>, <<<<"a">>>>, <<<<"b">>>>, <<<<"a">>, <<"b">>>>}

\* request.META: each header is present or not.
Metas ==
    {<<>>}
    \cup {[HTTP_X_FIELDS |-> x] : x \in Strings(MaxHeaderLen)}
    \cup {[HTTP_X_EXTRA_FIELDS |-> e] : e \in Strings(MaxExtraLen)}
    \cup {[HTTP_X_FIELDS |-> x, HTTP_X_EXTRA_FIELDS |-> e] :
             x \in Strings(MaxHeaderLen), e \in Strings(MaxExtraLen)}

\* dict.get(key, default)
DictGet(d, key, default) == IF key \in DOMAIN d THEN d[key] ELSE default

\* s.split(','): the pieces of s between commas; ''.split(',') is [''].
RECURSIVE split(_)
split(s) ==
    IF \A i \in DOMAIN s : s[i] # ","
    THEN <<s>>
    ELSE LET i == CHOOSE j \in DOMAIN s :
                     s[j] = "," /\ \A k \in 1..(j - 1) : s[k] # ","
         IN  <<SubSeq(s, 1, i - 1)>> \o split(SubSeq(s, i + 1, Len(s)))

\* piston.utils.list_to_dict: a field declaration as a mapping from each field
\* name to its (here empty) nested declaration.
list_to_dict(l) == [n \in Range(l) |-> <<>>]

RECURSIVE SetToSeq(_)
SetToSeq(S) ==
    IF S = {} THEN <<>>
    ELSE LET x == CHOOSE y \in S : TRUE IN <<x>> \o SetToSeq(S \ {x})

\* piston.utils.dict_to_list: the mapping back as a list, one entry per key.
dict_to_list(d) == SetToSeq(DOMAIN d)

\* get_fields that merges the extra fields without looking them up in the
\* allowed fields.
get_fields_unfiltered_extra(self, META, kind) ==
    LET allowed_fields == list_to_dict(self.fields)
        x_fields == DictGet(META, "HTTP_X_FIELDS", <<>>)
        picked == Range(split(x_fields)) \cap DOMAIN allowed_fields
    IN  IF picked # {}
        THEN dict_to_list([f \in picked |-> allowed_fields[f]])
        ELSE LET defaults == list_to_dict(IF kind = "QuerySet"
                                          THEN self.default_list_fields
                                          ELSE self.default_obj_fields)
                 x_extra_fields == DictGet(META, "HTTP_X_EXTRA_FIELDS", <<>>)
                 extra == Range(split(x_extra_fields))
             IN  dict_to_list([f \in DOMAIN defaults \cup extra |-> <<>>])

\* BaseModelResource.get_fields(request, result); kind tells whether result is
\* a QuerySet.
get_fields(self, META, kind) ==
    LET allowed_fields == list_to_dict(self.fields)
        x_fields == DictGet(META, "HTTP_X_FIELDS", <<>>)
        picked == Range(split(x_fields)) \cap DOMAIN allowed_fields
    IN  IF picked # {}
        THEN dict_to_list([f \in picked |-> allowed_fields[f]])
        ELSE LET defaults == list_to_dict(IF kind = "QuerySet"
                                          THEN self.default_list_fields
                                          ELSE self.default_obj_fields)
                 x_extra_fields == DictGet(META, "HTTP_X_EXTRA_FIELDS", <<>>)
                 extra == Range(split(x_extra_fields)) \cap DOMAIN allowed_fields
             IN  dict_to_list([f \in DOMAIN defaults \cup extra |->
                                 IF f \in extra THEN allowed_fields[f]
                                 ELSE defaults[f]])

(***************************************************************************)
(* The permission model: PermissionsResource and get_allowed_methods.      *)
(***************************************************************************)
KnownVerbs == {"GET", "POST", "PUT", "DELETE"}

\* The verbs a declaration or a restriction may name; OPTIONS is a verb
\* that has no validator.
Verbs == KnownVerbs \cup {"OPTIONS"}

\* restricted_methods=None
NoRestriction == [given |-> FALSE, methods |-> {}]

Restrictions == {NoRestriction} \cup {[given |-> TRUE, methods |-> m] : m \in SUBSET Verbs}

Users == {"alice", "bob"}

\* obj=None
NoObj == [owner |-> "nobody"]

Objs == {NoObj, [owner |-> "alice"]}

all_permissions_validators ==
    [v \in KnownVerbs |->
        CASE v = "GET" -> "has_read_permission"
          [] v = "PUT" -> "has_update_permission"
          [] v = "POST" -> "has_create_permission"
          [] v = "DELETE" -> "has_delete_permission"]

\* The verb each has_*_permission of PermissionsResource looks for.
ValidatorVerb(validator) ==
    CHOOSE v \in KnownVerbs : all_permissions_validators[v] = validator

\* A validator as PermissionsResource defines it ("default"), or as a
\* subclass overrides it to admit the owner of the object only ("owner").
has_permission(cls, validator, user, obj) ==
    IF cls.validators[validator] = "default"
    THEN ValidatorVerb(validator) \in cls.allowed_methods
    ELSE obj # NoObj /\ obj.owner = user

\* The truth value Python gives restricted_methods.
Truthy(restricted_methods) ==
    restricted_methods.given /\ restricted_methods.methods # {}

\* get_permission_validators: the mapping verb -> validator, or the KeyError
\* raised when a verb to be mapped has no validator.
get_permission_validators(cls, restricted_methods) ==
    LET methods == IF Truthy(restricted_methods)
                   THEN restricted_methods.methods \cap cls.allowed_methods
                   ELSE cls.allowed_methods
    IN  IF methods \subseteq DOMAIN all_permissions_validators
        THEN [kind |-> "dict", map |-> [v \in methods |-> all_permissions_validators[v]]]
        ELSE Raise("KeyError")

\* get_allowed_methods; order is the order in which the mapping is iterated.
get_allowed_methods(cls, user, obj, restricted_methods, order) ==
    LET pv == get_permission_validators(cls, restricted_methods)
    IN  IF pv.kind = "raise" THEN pv
        ELSE [kind |-> "list",
              list |-> SelectSeq(order,
                          LAMBDA v : v \in DOMAIN pv.map
                                     /\ has_permission(cls, pv.map[v], user, obj))]

\* The orders in which a mapping over the verbs S can be iterated.
Orders(S) ==
    {o \in [1..Cardinality(S) -> S] : \A i, j \in DOMAIN o : i # j => o[i] # o[j]}

(***************************************************************************)
(* The dispatch pipeline: BaseResource.get_result and dispatch.            *)
(***************************************************************************)
MaxDispatch == 3

callmap == [GET |-> "read", POST |-> "create", PUT |-> "update", DELETE |-> "delete"]

\* PATCH is a method callmap does not map.
Methods == {"GET", "POST", "PUT", "DELETE", "PATCH"}

\* A body: its content type, whether its text parses, and the data it holds.
Bodies ==
    {[content_type |-> "application/json", wellformed |-> TRUE, data |-> [name |-> "x"]],
     [content_type |-> "application/json", wellformed |-> FALSE, data |-> <<>>],
     [content_type |-> "application/x-unknown", wellformed |-> TRUE, data |-> <<>>]}

Requests == [method : Methods, body : Bodies, kwargs : {<<>>, [id |-> 1]}, META : {<<>>}]

\* The resource classes: BaseResource, whose CRUD methods raise
\* NotImplementedError, and BaseModelResource.
Classes == {"BaseResource", "BaseModelResource"}

\* A value with explicit headers and status, as get_result reads it.
HeadersResult(result, http_headers, status_code) ==
    [kind |-> "HeadersResult", result |-> result, http_headers |-> http_headers,
     status_code |-> status_code]

\* What the CRUD methods of a resource written on BaseResource
\* ("CustomResource") return: a record, a raw response, or either of them
\* with headers and a status of its own.
ReturnValues ==
    {Inst([id |-> 1, name |-> "x"]),
     rc("NOT_FOUND"),
     HeadersResult(Inst([id |-> 1, name |-> "x"]), <<>>, 201),
     HeadersResult(Inst([id |-> 1, name |-> "x"]), "Cache-Control" :> "no-cache", 200),
     HeadersResult(rc("NOT_FOUND"), "Location" :> "/x", 201),
     HeadersResult(rc("ALL_OK"), "Cache-Control" :> "no-cache", 200)}

NoReturn == [kind |-> "none"]

\* serializer.deserialize(request): the request with its data, or the
\* decode error raised.
deserialize(request) ==
    IF request.body.content_type # "application/json"
    THEN Raise("UnsupportedMediaTypeException")
    ELSE IF ~request.body.wellformed THEN Raise("MimerDataException")
    ELSE [kind |-> "request", data |-> request.body.data]

\* meth(request, *args, **kwargs) on a resource of class cls.
invoke(self, meth, st, kwargs, data, newid) ==
    IF self.cls = "BaseResource" THEN [store |-> st, result |-> Raise("NotImplementedError")]
    ELSE IF self.cls = "CustomResource" THEN [store |-> st, result |-> self.returns]
    ELSE CASE meth = "read" -> read(st, kwargs)
           [] meth = "create" -> create(st, data, newid)
           [] meth = "update" -> update(st, [k \in DOMAIN kwargs \cap {pkfield} |-> kwargs[k]],
                                        data, newid)
           [] meth = "delete" -> delete(st, kwargs)

\* The tail of get_result: a returned value as (result, http_headers,
\* status_code).
normalize(result) ==
    LET unwrapped == IF result.kind = "HeadersResult"
                     THEN [result |-> result.result, http_headers |-> result.http_headers,
                           status_code |-> result.status_code]
                     ELSE [result |-> result, http_headers |-> <<>>, status_code |-> 200]
    IN  IF unwrapped.result.kind = "rc"
        THEN [unwrapped EXCEPT !.status_code = unwrapped.result.status,
                               !.result = [kind |-> "_container",
                                           content |-> unwrapped.result.name]]
        ELSE unwrapped

\* get_result that answers every decode error with BAD_REQUEST.
get_result_one_sentinel(self, st, request, newid) ==
    LET d == deserialize(request)
    IN  IF d.kind = "raise"
        THEN [store |-> st, decode |-> d.exc, invoked |-> "none",
              out |-> [kind |-> "triple", triple |-> normalize(rc("BAD_REQUEST"))]]
        ELSE IF request.method \notin DOMAIN callmap
        THEN [store |-> st, decode |-> "ok", invoked |-> "none", out |-> Raise("Http404")]
        ELSE LET r == invoke(self, callmap[request.method], st, request.kwargs,
                             d.data, newid)
             IN  [store |-> r.store, decode |-> "ok", invoked |-> callmap[request.method],
                  out |-> IF r.result.kind = "raise" THEN r.result
                          ELSE [kind |-> "triple", triple |-> normalize(r.result)]]

\* get_result that refuses a verb the resource does not allow.
get_result_allowed_only(self, st, request, newid) ==
    LET d == deserialize(request)
    IN  IF d.kind = "raise"
        THEN [store |-> st, decode |-> d.exc, invoked |-> "none",
              out |-> [kind |-> "triple",
                       triple |-> normalize(IF d.exc = "MimerDataException"
                                            THEN rc("BAD_REQUEST")
                                            ELSE rc("UNSUPPORTED_MEDIA_TYPE"))]]
        ELSE IF \/ request.method \notin DOMAIN callmap
                \/ request.method \notin self.perm.allowed_methods
        THEN [store |-> st, decode |-> "ok", invoked |-> "none", out |-> Raise("Http404")]
        ELSE LET r == invoke(self, callmap[request.method], st, request.kwargs,
                             d.data, newid)
             IN  [store |-> r.store, decode |-> "ok", invoked |-> callmap[request.method],
                  out |-> IF r.result.kind = "raise" THEN r.result
                          ELSE [kind |-> "triple", triple |-> normalize(r.result)]]

\* get_result: the table it leaves, how decoding ended, the CRUD method it
\* invoked, and the triple it returns or the exception that leaves it.
get_result(self, st, request, newid) ==
    LET d == deserialize(request)
    IN  IF d.kind = "raise"
        THEN [store |-> st, decode |-> d.exc, invoked |-> "none",
              out |-> [kind |-> "triple",
                       triple |-> normalize(IF d.exc = "MimerDataException"
                                            THEN rc("BAD_REQUEST")
                                            ELSE rc("UNSUPPORTED_MEDIA_TYPE"))]]
        ELSE IF request.method \notin DOMAIN callmap
        THEN [store |-> st, decode |-> "ok", invoked |-> "none", out |-> Raise("Http404")]
        ELSE LET r == invoke(self, callmap[request.method], st, request.kwargs,
                             d.data, newid)
             IN  [store |-> r.store, decode |-> "ok", invoked |-> callmap[request.method],
                  out |-> IF r.result.kind = "raise" THEN r.result
                          ELSE [kind |-> "triple", triple |-> normalize(r.result)]]

\* self.get_fields of the two classes.
resource_get_fields(self, request, result) ==
    IF self.cls \in {"BaseResource", "CustomResource"} THEN <<>>
    ELSE get_fields(self.decl, request.META,
                    IF result.kind = "QuerySet" THEN "QuerySet" ELSE "object")

\* self.serialize(request, result): the stream and its content type. The
\* stream shows the records of the result as the table st holds them, and
\* the fields selected.
serialize(self, st, request, result) ==
    [stream |->
        [rows |-> CASE result.kind = "QuerySet" -> Matching(st, result.crit)
                    [] result.kind = "inst" -> {result.rec}
                    [] OTHER -> {},
         many |-> result.kind = "QuerySet",
         text |-> IF result.kind = "_container" THEN result.content ELSE "",
         fields |-> resource_get_fields(self, request, result)],
     ct |-> "application/json"]

\* get_headers that leaves a header the result supplied as it is.
get_headers_setdefault(self, http_headers) ==
    LET standard ==
            [h \in {"X-Serialization-Format-Options", "Cache-Control"}
                    \cup (IF self.cls = "BaseModelResource" THEN {"X-Fields-Options"} ELSE {})
                |-> CASE h = "X-Serialization-Format-Options" -> "SERIALIZATION_TYPES"
                      [] h = "Cache-Control" -> "must-revalidate, private"
                      [] h = "X-Fields-Options" -> "flat_list(fields)"]
    IN  [h \in DOMAIN http_headers \cup DOMAIN standard |->
            IF h \in DOMAIN http_headers THEN http_headers[h] ELSE standard[h]]

\* get_headers of the two classes: the headers given, with the standard ones set.
get_headers(self, http_headers) ==
    LET standard ==
            [h \in {"X-Serialization-Format-Options", "Cache-Control"}
                    \cup (IF self.cls = "BaseModelResource" THEN {"X-Fields-Options"} ELSE {})
                |-> CASE h = "X-Serialization-Format-Options" -> "SERIALIZATION_TYPES"
                      [] h = "Cache-Control" -> "must-revalidate, private"
                      [] h = "X-Fields-Options" -> "flat_list(fields)"]
    IN  [h \in DOMAIN http_headers \cup DOMAIN standard |->
            IF h \in DOMAIN standard THEN standard[h] ELSE http_headers[h]]

\* The response cache: get_response and cache_response, keyed by request.
get_response(cch, request) ==
    IF request \in DOMAIN cch THEN cch[request] ELSE [kind |-> "None"]

cache_response(cch, request, resp) ==
    [r \in DOMAIN cch \cup {request} |-> IF r = request THEN resp ELSE cch[r]]

\* What a dispatch did, beside the response it returned.
Trace(hit, gr, serialized, cached) ==
    [hit |-> hit, decode |-> gr.decode, invoked |-> gr.invoked,
     serialized |-> serialized, cached |-> cached]

NoResult == [decode |-> "skipped", invoked |-> "none"]

\* dispatch that does not look the request up in the cache.
dispatch_no_lookup(self, st, cch, request, newid) ==
    LET gr == get_result(self, st, request, newid)
    IN  IF gr.out.kind = "raise"
        THEN [store |-> gr.store, cache |-> cch, out |-> gr.out, gr |-> gr.out,
              trace |-> Trace(FALSE, gr, FALSE, FALSE)]
        ELSE LET t == gr.out.triple
                 s == serialize(self, gr.store, request, t.result)
                 resp == [kind |-> "response", status |-> t.status_code,
                          content |-> s.stream, content_type |-> s.ct,
                          headers |-> get_headers(self, t.http_headers)]
             IN  [store |-> gr.store,
                  cache |-> IF self.cache THEN cache_response(cch, request, resp) ELSE cch,
                  out |-> resp, gr |-> gr.out,
                  trace |-> Trace(FALSE, gr, TRUE, self.cache)]

\* dispatch: the table and the cache it leaves, the response it returns or
\* the exception that leaves it, and the trace of what it did.
dispatch(self, st, cch, request, newid) ==
    IF self.cache /\ get_response(cch, request).kind # "None"
    THEN [store |-> st, cache |-> cch, out |-> get_response(cch, request),
          gr |-> [kind |-> "none"],
          trace |-> Trace(TRUE, NoResult, FALSE, FALSE)]
    ELSE LET gr == get_result(self, st, request, newid)
         IN  IF gr.out.kind = "raise"
             THEN [store |-> gr.store, cache |-> cch, out |-> gr.out, gr |-> gr.out,
                   trace |-> Trace(FALSE, gr, FALSE, FALSE)]
             ELSE LET t == gr.out.triple
                      s == serialize(self, gr.store, request, t.result)
                      resp == [kind |-> "response", status |-> t.status_code,
                               content |-> s.stream, content_type |-> s.ct,
                               headers |-> get_headers(self, t.http_headers)]
                  IN  [store |-> gr.store,
                       cache |-> IF self.cache THEN cache_response(cch, request, resp)
                                 ELSE cch,
                       out |-> resp, gr |-> gr.out,
                       trace |-> Trace(FALSE, gr, TRUE, self.cache)]

(***************************************************************************)
(* The registry: ResourceMetaClass.__new__ with typemapper and             *)
(* resource_tracker. A class is known by the position of its definition.   *)
(***************************************************************************)
MaxClasses == 3

\* The models a resource class may have; NoModel stands for a class without
\* the attribute model.
NoModel == "none"

Models == {"M1", "M2"}

ClassNames == {"BaseResource", "Resource"}

\* What a class statement gives the metaclass: the name, and the attributes
\* register and model as the new class has them, inherited or its own.
ClassDefs == [name : ClassNames, register : BOOLEAN, model : Models \cup {NoModel}]

\* The classes resource.py itself defines with the metaclass.
BaseResourceDef == [name |-> "BaseResource", register |-> FALSE, model |-> NoModel]

BaseModelResourceDef == [name |-> "BaseModelResource", register |-> TRUE, model |-> NoModel]

already_registered(tm, mdl) == mdl \in DOMAIN tm

\* __new__ that keeps the resource a model was registered with first.
ResourceMetaClass_new_first_wins(tm, rt, wn, ignore_dupes, def, new_cls) ==
    IF def.register
    THEN [typemapper |->
             IF def.model # NoModel /\ ~already_registered(tm, def.model)
             THEN [k \in DOMAIN tm \cup {def.model} |->
                     IF k = def.model THEN new_cls ELSE tm[k]]
             ELSE tm,
          warned |->
             IF def.model # NoModel /\ already_registered(tm, def.model) /\ ~ignore_dupes
             THEN wn \cup {new_cls} ELSE wn,
          resource_tracker |->
             IF def.name # "BaseResource" THEN Append(rt, new_cls) ELSE rt]
    ELSE [typemapper |-> tm, warned |-> wn, resource_tracker |-> rt]

\* ResourceMetaClass.__new__ for the class new_cls defined by def: the
\* registry it leaves and the classes warned about so far.
ResourceMetaClass_new(tm, rt, wn, ignore_dupes, def, new_cls) ==
    IF def.register
    THEN [typemapper |->
             IF def.model # NoModel
             THEN [k \in DOMAIN tm \cup {def.model} |->
                     IF k = def.model THEN new_cls ELSE tm[k]]
             ELSE tm,
          warned |->
             IF def.model # NoModel /\ already_registered(tm, def.model) /\ ~ignore_dupes
             THEN wn \cup {new_cls} ELSE wn,
          resource_tracker |->
             IF def.name # "BaseResource" THEN Append(rt, new_cls) ELSE rt]
    ELSE [typemapper |-> tm, warned |-> wn, resource_tracker |-> rt]

VARIABLES store, last, prev, iterated, decl, gf, perm, am, resource, cache, disp,
          ndispatch, settings, defined, typemapper, resource_tracker, warned, race

storeVars == <<store, last, prev, iterated>>

fieldVars == <<decl, gf>>

permVars == <<perm, am>>

dispVars == <<resource, cache, disp, ndispatch>>

registryVars == <<settings, defined, typemapper, resource_tracker, warned>>

raceVars == <<race>>

vars == <<store, last, prev, iterated, decl, gf, perm, am, resource, cache, disp, ndispatch,
          settings, defined, typemapper, resource_tracker, warned, race>>

\* The record of a call: the method, its arguments, the table it found and
\* what it returned. last is the latest call; prev is the call before it when
\* that call was a create, and NoCall otherwise.
Call(op, kwargs, data, pre, result) ==
    [op |-> op, kwargs |-> kwargs, data |-> data, pre |-> pre, result |-> result]

NoCall == Call("none", <<>>, <<>>, {}, [kind |-> "none"])

StoreIdle ==
    /\ store = {}
    /\ last = NoCall
    /\ prev = NoCall
    /\ iterated = <<>>

\* The declaration of DefaultRestModelResource, with the names id and
\* _obj_name written a and b.
DefaultDecl ==
    [fields |-> <<<<"a">>, <<"b">>>>,
     default_obj_fields |-> <<<<"a">>, <<"b">>>>,
     default_list_fields |-> <<<<"a">>, <<"b">>>>]

NoFieldsCall == [META |-> <<>>, kind |-> "object", done |-> FALSE, out |-> <<>>]

FieldsIdle ==
    /\ decl = DefaultDecl
    /\ gf = NoFieldsCall

\* PermissionsResource as declared: every verb allowed, no validator overridden.
DefaultPerm ==
    [allowed_methods |-> KnownVerbs,
     validators |-> [f \in {all_permissions_validators[v] : v \in KnownVerbs} |-> "default"]]

\* A call of get_allowed_methods: its arguments, what it returned (out) and
\* what the get_permission_validators it calls returned (pv).
NoAllowedCall ==
    [user |-> "alice", obj |-> NoObj, restricted_methods |-> NoRestriction,
     done |-> FALSE, out |-> [kind |-> "none"], pv |-> [kind |-> "none"]]

PermIdle ==
    /\ perm = DefaultPerm
    /\ am = NoAllowedCall

NoDispatch ==
    [request |-> [method |-> "none"], pre |-> [store |-> {}, cache |-> <<>>],
     out |-> [kind |-> "none"], gr |-> [kind |-> "none"],
     trace |-> Trace(FALSE, NoResult, FALSE, FALSE)]

DispatchIdle ==
    /\ resource = [cls |-> "BaseModelResource", cache |-> FALSE, decl |-> DefaultDecl,
                   perm |-> DefaultPerm, returns |-> NoReturn]
    /\ cache = <<>>
    /\ disp = NoDispatch
    /\ ndispatch = 0

\* Two requests in flight, each inside create: the body they share, where
\* each call stands, what each returned, and the steps taken so far.
Callers == {1, 2}

NoRace ==
    [data |-> <<>>, pc |-> [p \in Callers |-> "idle"],
     result |-> [p \in Callers |-> [kind |-> "none"]], steps |-> <<>>]

RaceIdle == race = NoRace

\* The registry once resource.py is imported: BaseResource does not
\* register; BaseModelResource registers and has no model.
RegistryIdle ==
    /\ settings = [PISTON_IGNORE_DUPE_MODELS |-> FALSE]
    /\ defined = <<BaseResourceDef, BaseModelResourceDef>>
    /\ typemapper = <<>>
    /\ resource_tracker = <<2>>
    /\ warned = {}

StoreInit ==
    /\ StoreIdle
    /\ FieldsIdle
    /\ PermIdle
    /\ DispatchIdle
    /\ RegistryIdle
    /\ RaceIdle

Did(op, kwargs, data, out) ==
    /\ store' = out.store
    /\ last' = Call(op, kwargs, data, store, out.result)
    /\ prev' = IF last.op = "create" THEN last ELSE NoCall
    /\ iterated' = <<>>
    /\ UNCHANGED <<fieldVars, permVars, dispVars, registryVars, raceVars>>

Exists == \E kwargs \in Dicts : Did("exists", kwargs, <<>>, exists(store, kwargs))

Read == \E kwargs \in Dicts : Did("read", kwargs, <<>>, read(store, kwargs))

\* A create that has to insert needs a pk the table can still hand out.
Create ==
    \E data \in Dicts :
        \/ /\ get(store, flatten_dict(data)) # Raise("DoesNotExist")
           /\ Did("create", <<>>, data, create(store, data, NonePk))
        \/ /\ get(store, flatten_dict(data)) = Raise("DoesNotExist")
           /\ \E newid \in IF "id" \in DOMAIN data THEN {NonePk} ELSE FreshIds(store) :
                  Did("create", <<>>, data, create(store, data, newid))

Update ==
    \E kwargs \in PkDicts, data \in Dicts :
        Did("update", kwargs, data, update(store, kwargs, data, NonePk))

Delete == \E kwargs \in Dicts : Did("delete", kwargs, <<>>, delete(store, kwargs))

\* The caller iterates the collection the latest read returned; iterated
\* holds what each iteration of it yielded.
Iterate ==
    /\ last.op = "read"
    /\ last.result.kind \in {"QuerySet", "iterator"}
    /\ Len(iterated) < MaxIter
    /\ iterated' = Append(iterated, iterate(last.result, store, iterated))
    /\ UNCHANGED <<store, last, prev, fieldVars, permVars, dispVars, registryVars, raceVars>>

StoreNext == Exists \/ Read \/ Create \/ Update \/ Delete \/ Iterate

SpecStore == StoreInit /\ [][StoreNext]_vars

(***************************************************************************)
(* SpecFields: a resource declaration and a request are drawn, and         *)
(* get_fields is applied to them.                                          *)
(***************************************************************************)
ResultKinds == {"object", "QuerySet"}

FieldsInit ==
    /\ StoreIdle
    /\ PermIdle
    /\ DispatchIdle
    /\ RegistryIdle
    /\ RaceIdle
    /\ decl \in [fields : Decls, default_obj_fields : Decls, default_list_fields : Decls]
    /\ gf \in [META : Metas, kind : ResultKinds, done : {FALSE}, out : {<<>>}]

GetFields ==
    /\ ~gf.done
    /\ gf' = [gf EXCEPT !.done = TRUE, !.out = get_fields(decl, gf.META, gf.kind)]
    /\ UNCHANGED <<storeVars, decl, permVars, dispVars, registryVars, raceVars>>

FieldsNext == GetFields

SpecFields == FieldsInit /\ [][FieldsNext]_vars

(***************************************************************************)
(* SpecPerm: a resource class, a caller, an object and a restriction are   *)
(* drawn, and get_allowed_methods is applied to them.                      *)
(***************************************************************************)
PermInit ==
    /\ StoreIdle
    /\ FieldsIdle
    /\ DispatchIdle
    /\ RegistryIdle
    /\ RaceIdle
    /\ perm \in [allowed_methods : SUBSET Verbs,
                  validators : [{all_permissions_validators[v] : v \in KnownVerbs}
                                  -> {"default", "owner"}]]
    /\ am \in [user : Users, obj : Objs, restricted_methods : Restrictions,
                done : {FALSE}, out : {[kind |-> "none"]}, pv : {[kind |-> "none"]}]

GetAllowedMethods ==
    /\ ~am.done
    /\ LET pv == get_permission_validators(perm, am.restricted_methods)
       IN  \E order \in Orders(IF pv.kind = "dict" THEN DOMAIN pv.map ELSE {}) :
               am' = [am EXCEPT !.done = TRUE, !.pv = pv,
                                !.out = get_allowed_methods(perm, am.user, am.obj,
                                                            am.restricted_methods, order)]
    /\ UNCHANGED <<storeVars, fieldVars, perm, dispVars, registryVars, raceVars>>

PermNext == GetAllowedMethods

SpecPerm == PermInit /\ [][PermNext]_vars

(***************************************************************************)
(* SpecDispatch: a resource of either class, with or without a response    *)
(* cache, serves up to MaxDispatch requests one after the other.           *)
(***************************************************************************)
DispatchInit ==
    /\ StoreIdle
    /\ FieldsIdle
    /\ PermIdle
    /\ resource \in [cls : Classes, cache : BOOLEAN, decl : {DefaultDecl},
                     perm : {DefaultPerm}, returns : {NoReturn}]
    /\ cache = <<>>
    /\ disp = NoDispatch
    /\ ndispatch = 0
    /\ RegistryIdle
    /\ RaceIdle

\* The pks the table may give the record this request creates, if it creates one.
NewIds(request) ==
    LET d == deserialize(request)
    IN  IF /\ ~(resource.cache /\ request \in DOMAIN cache)
           /\ resource.cls = "BaseModelResource"
           /\ request.method = "POST"
           /\ d.kind = "request"
           /\ get(store, flatten_dict(d.data)) = Raise("DoesNotExist")
           /\ "id" \notin DOMAIN d.data
        THEN FreshIds(store)
        ELSE {NonePk}

\* One dispatch of a request out of requests. disp records the request, the
\* table and cache found, the response (or exception), what get_result
\* returned (gr) and the trace.
DispatchOn(requests) ==
    /\ ndispatch < MaxDispatch
    /\ \E request \in requests :
        \E newid \in NewIds(request) :
        \E d \in {dispatch(resource, store, cache, request, newid)} :
            /\ store' = d.store
            /\ cache' = d.cache
            /\ disp' = [request |-> request, pre |-> [store |-> store, cache |-> cache],
                        out |-> d.out, gr |-> d.gr, trace |-> d.trace]
    /\ ndispatch' = ndispatch + 1
    /\ UNCHANGED <<last, prev, iterated, fieldVars, permVars, resource, registryVars, raceVars>>

Dispatch == DispatchOn(Requests)

DispatchNext == Dispatch

SpecDispatch == DispatchInit /\ [][DispatchNext]_vars

(***************************************************************************)
(* SpecServe: a resource that allows GET only, or a resource whose CRUD    *)
(* methods are written by the user, serves up to MaxDispatch requests.     *)
(***************************************************************************)
GetOnlyPerm == [DefaultPerm EXCEPT !.allowed_methods = {"GET"}]

ServedRequests ==
    [method : Methods,
     body : {b \in Bodies : b.content_type = "application/json"},
     kwargs : {[id |-> 1]}, META : {<<>>}]

ServeInit ==
    /\ StoreIdle
    /\ FieldsIdle
    /\ PermIdle
    /\ resource \in [cls : {"BaseModelResource"}, cache : BOOLEAN, decl : {DefaultDecl},
                      perm : {DefaultPerm, GetOnlyPerm}, returns : {NoReturn}]
                 \cup [cls : {"CustomResource"}, cache : BOOLEAN, decl : {DefaultDecl},
                       perm : {DefaultPerm}, returns : ReturnValues]
    /\ cache = <<>>
    /\ disp = NoDispatch
    /\ ndispatch = 0
    /\ RegistryIdle
    /\ RaceIdle

Serve == DispatchOn(ServedRequests)

ServeNext == Serve

SpecServe == ServeInit /\ [][ServeNext]_vars

(***************************************************************************)
(* SpecRegistry: after the import of resource.py, up to MaxClasses         *)
(* resource classes are defined one after the other.                       *)
(***************************************************************************)
RegistryInit ==
    /\ StoreIdle
    /\ FieldsIdle
    /\ PermIdle
    /\ DispatchIdle
    /\ RaceIdle
    /\ settings \in [PISTON_IGNORE_DUPE_MODELS : BOOLEAN]
    /\ defined = <<BaseResourceDef, BaseModelResourceDef>>
    /\ typemapper = <<>>
    /\ resource_tracker = <<2>>
    /\ warned = {}

DefineClass ==
    /\ Len(defined) < MaxClasses + 2
    /\ \E def \in ClassDefs :
        \E r \in {ResourceMetaClass_new(typemapper, resource_tracker, warned,
                                        settings.PISTON_IGNORE_DUPE_MODELS, def,
                                        Len(defined) + 1)} :
            /\ defined' = Append(defined, def)
            /\ typemapper' = r.typemapper
            /\ resource_tracker' = r.resource_tracker
            /\ warned' = r.warned
    /\ UNCHANGED <<storeVars, fieldVars, permVars, dispVars, settings, raceVars>>

RegistryNext == DefineClass

SpecRegistry == RegistryInit /\ [][RegistryNext]_vars

(***************************************************************************)
(* SpecRace: two create calls with the same body run at once on a table    *)
(* that holds no match; the steps of the two interleave in every way.      *)
(***************************************************************************)
\* Tables: no two rows share a pk.
Tables == {t \in SUBSET Records : \A r, s \in t : r.id = s.id => r = s}

RaceInit ==
    /\ FieldsIdle
    /\ PermIdle
    /\ DispatchIdle
    /\ RegistryIdle
    /\ last = NoCall
    /\ prev = NoCall
    /\ iterated = <<>>
    /\ \E data \in Dicts :
          /\ store \in {t \in Tables : Matching(t, flatten_dict(data)) = {}}
          /\ race = [NoRace EXCEPT !.data = data, !.pc = [p \in Callers |-> "start"]]

\* Caller p runs the duplicate check of create.
RaceCheck(p) ==
    /\ race.pc[p] = "start"
    /\ LET c == create_check(store, race.data)
       IN  race' = [race EXCEPT !.pc[p] = IF c.ends THEN "done" ELSE "checked",
                                !.result[p] = c.result,
                                !.steps = Append(@, <<p, "check">>)]
    /\ UNCHANGED <<store, last, prev, iterated, fieldVars, permVars, dispVars, registryVars>>

\* Caller p, having found no match, saves its instance.
RaceSave(p) ==
    /\ race.pc[p] = "checked"
    /\ \E newid \in IF "id" \in DOMAIN race.data THEN {NonePk} ELSE FreshIds(store) :
          LET s == create_save(store, race.data, newid)
          IN  /\ store' = s.store
              /\ race' = [race EXCEPT !.pc[p] = "done", !.result[p] = s.result,
                                       !.steps = Append(@, <<p, "save">>)]
    /\ UNCHANGED <<last, prev, iterated, fieldVars, permVars, dispVars, registryVars>>

RaceNext == \E p \in Callers : RaceCheck(p) \/ RaceSave(p)

SpecRace == RaceInit /\ [][RaceNext]_vars

(***************************************************************************)
(* Claims about concurrent creates, checked under SpecRace.                *)
(***************************************************************************)

RaceDone == \A p \in Callers : race.pc[p] = "done"

\* C20: whichever way two concurrent creates with the same field values
\* interleave on a table without a match, at most one record with those
\* values is persisted and at least one call returns DUPLICATE_ENTRY.
C20_CreateRace ==
    RaceDone
    => /\ Cardinality(Matching(store, flatten_dict(race.data))) <= 1
       /\ \E p \in Callers : race.result[p] = rc("DUPLICATE_ENTRY")

\* What the code does: a call returns DUPLICATE_ENTRY exactly when the other
\* call saved before it checked; when both check before either saves, both
\* save and both return an instance.
C20_AsCoded ==
    RaceDone
    => /\ (\E p \in Callers : race.result[p] = rc("DUPLICATE_ENTRY"))
            <=> race.steps[2][2] = "save"
       /\ race.steps[2][2] = "check"
            => /\ \A p \in Callers : race.result[p].kind = "inst"
               /\ "id" \notin DOMAIN race.data
                    => Cardinality(Matching(store, flatten_dict(race.data))) = 2

(***************************************************************************)
(* Claims about the registry, checked under SpecRegistry.                  *)
(***************************************************************************)

\* The classes defined so far that register, and those of them with model m.
Registering == {i \in DOMAIN defined : defined[i].register}

RegisteringFor(m) == {i \in Registering : defined[i].model = m}

Latest(S) == CHOOSE i \in S : \A j \in S : j <= i

\* C19: after any sequence of class definitions typemapper holds, for each
\* model, the most recently defined registering resource of that model and
\* no other (a second registration replaces the first and raises no
\* error); a class with register false is in neither typemapper nor
\* resource_tracker; resource_tracker holds every registering class, in
\* definition order, both classes of a duplicate registration included.
C19_Registry ==
    /\ DOMAIN typemapper = {m \in Models : RegisteringFor(m) # {}}
    /\ \A m \in DOMAIN typemapper : typemapper[m] = Latest(RegisteringFor(m))
    /\ \A i \in DOMAIN defined \ Registering :
          /\ \A m \in DOMAIN typemapper : typemapper[m] # i
          /\ i \notin Range(resource_tracker)
    /\ resource_tracker = SelectSeq([i \in DOMAIN defined |-> i],
                                    LAMBDA i : i \in Registering)

\* C19 as amended: the same, with resource_tracker holding every registering
\* class that is not named BaseResource.
C19_RegistryAmended ==
    /\ DOMAIN typemapper = {m \in Models : RegisteringFor(m) # {}}
    /\ \A m \in DOMAIN typemapper : typemapper[m] = Latest(RegisteringFor(m))
    /\ \A i \in DOMAIN defined \ Registering :
          /\ \A m \in DOMAIN typemapper : typemapper[m] # i
          /\ i \notin Range(resource_tracker)
    /\ resource_tracker = SelectSeq([i \in DOMAIN defined |-> i],
                                    LAMBDA i : /\ i \in Registering
                                               /\ defined[i].name # "BaseResource")

\* A model registered twice, the later class in typemapper and the earlier
\* one still in resource_tracker; a registering class named BaseResource
\* that resource_tracker does not hold; a class that does not register.
C19_Witness ==
    /\ \E m \in DOMAIN typemapper :
        \E i \in RegisteringFor(m) :
            /\ i < typemapper[m]
            /\ i \in Range(resource_tracker)
    /\ \E k \in Registering :
            defined[k].name = "BaseResource" /\ k \notin Range(resource_tracker)
    /\ \E n \in DOMAIN defined \ Registering : n > 2

\* A duplicate registration is warned about, unless
\* PISTON_IGNORE_DUPE_MODELS is set, and is no error.
C19_DuplicateWarned ==
    warned = IF settings.PISTON_IGNORE_DUPE_MODELS THEN {}
                ELSE {i \in Registering :
                        /\ defined[i].model # NoModel
                        /\ \E j \in RegisteringFor(defined[i].model) : j < i}

(***************************************************************************)
(* Claims about dispatch, checked under SpecDispatch.                      *)
(***************************************************************************)

Dispatched == disp.request.method \in Methods

\* C1: with a response cache configured, once a dispatch of a request has
\* stored its response, every later dispatch of the same request returns
\* that stored response, invokes no CRUD method, neither deserializes nor
\* serializes, and does not write to the cache.
C1_CachedResponseReturned ==
    /\ \A r \in DOMAIN disp.pre.cache :
          r \in DOMAIN cache /\ cache[r] = disp.pre.cache[r]
    /\ (disp.trace.cached \/ disp.trace.hit)
       => (resource.cache /\ cache[disp.request] = disp.out)
    /\ (resource.cache /\ disp.request \in DOMAIN disp.pre.cache)
       => /\ disp.out = disp.pre.cache[disp.request]
          /\ disp.trace = [hit |-> TRUE, decode |-> "skipped", invoked |-> "none",
                           serialized |-> FALSE, cached |-> FALSE]
          /\ cache = disp.pre.cache
          /\ store = disp.pre.store

\* A GET served from the cache after a record was created: the response
\* stored before the create is returned.
C1_Witness ==
    /\ resource.cache
    /\ disp.trace.hit
    /\ disp.request.method = "GET"
    /\ disp.request.kwargs = <<>>
    /\ disp.pre.store # {}
    /\ disp.out.status = 200
    /\ disp.out.content.rows = {}

\* C5: when no CRUD method is mapped to the request's HTTP method, or the
\* resource does not implement the operation, dispatch returns a response
\* with status 404 and no exception leaves it.
C5_UnmappedMethodNotFound ==
    (/\ Dispatched
     /\ ~disp.trace.hit
     /\ disp.trace.decode = "ok"
     /\ (disp.request.method \notin DOMAIN callmap \/ resource.cls = "BaseResource"))
    => /\ disp.out.kind = "response"
       /\ disp.out.status = 404

\* What dispatch does there: the exception leaves it, and nothing is cached.
C5_AsCoded ==
    (/\ Dispatched
     /\ ~disp.trace.hit
     /\ disp.trace.decode = "ok"
     /\ (disp.request.method \notin DOMAIN callmap \/ resource.cls = "BaseResource"))
    => /\ disp.out = IF disp.request.method \notin DOMAIN callmap
                     THEN Raise("Http404") ELSE Raise("NotImplementedError")
       /\ cache = disp.pre.cache

\* C6: when deserializing the body fails, dispatch raises nothing and
\* invokes no CRUD method: an unsupported content type gives status 415, an
\* unparseable body of a supported type gives status 400, and the table is
\* unchanged.
C6_DecodeErrors ==
    (Dispatched /\ deserialize(disp.request).kind = "raise")
    => /\ disp.out.kind = "response"
       /\ disp.out.status =
            IF disp.request.body.content_type # "application/json" THEN 415 ELSE 400
       /\ disp.trace.invoked = "none"
       /\ disp.trace.hit \/ disp.trace.decode = deserialize(disp.request).exc
       /\ store = disp.pre.store

C6_Witness ==
    /\ disp.request.method = "POST"
    /\ disp.request.body.content_type = "application/x-unknown"
    /\ ~disp.trace.hit
    /\ disp.trace.decode = "UnsupportedMediaTypeException"
    /\ disp.pre.store # {}
    /\ disp.out.status = 415

(***************************************************************************)
(* Claims about dispatch and get_result, checked under SpecServe.          *)
(***************************************************************************)

\* C13: dispatch consults neither allowed_methods nor a permission
\* validator: on a cache miss, after a successful decode, a request whose
\* method callmap maps has the mapped CRUD method invoked, with its effect on
\* the table, also when the resource does not allow the verb.
C13_DispatchUnguarded ==
    (/\ Dispatched
     /\ ~disp.trace.hit
     /\ disp.trace.decode = "ok"
     /\ disp.request.method \in DOMAIN callmap)
    => /\ disp.trace.invoked = callmap[disp.request.method]
       /\ resource.cls = "BaseModelResource"
            => LET pre == disp.pre.store
                   kwargs == disp.request.kwargs
                   data == disp.request.body.data
               IN  CASE disp.request.method = "GET" -> store = read(pre, kwargs).store
                     [] disp.request.method = "POST" ->
                            \E newid \in Ids : store = create(pre, data, newid).store
                     [] disp.request.method = "PUT" ->
                            store = update(pre, kwargs, data, NonePk).store
                     [] disp.request.method = "DELETE" ->
                            store = delete(pre, kwargs).store

\* A resource that allows GET only deletes a record on DELETE.
C13_Witness ==
    /\ Dispatched
    /\ resource.perm.allowed_methods = {"GET"}
    /\ ~has_permission(resource.perm, "has_delete_permission", "alice", NoObj)
    /\ disp.request.method = "DELETE"
    /\ disp.trace.invoked = "delete"
    /\ disp.pre.store # {}
    /\ store = {}

\* The two standard headers, with their standard values, on a response.
StandardHeaders(resp) ==
    /\ resp.kind = "response"
    /\ {"Cache-Control", "X-Serialization-Format-Options"} \subseteq DOMAIN resp.headers
    /\ resp.headers["Cache-Control"] = "must-revalidate, private"
    /\ resp.headers["X-Serialization-Format-Options"] = "SERIALIZATION_TYPES"

\* C17: every response dispatch returns, built or taken from the cache,
\* carries Cache-Control: must-revalidate, private and
\* X-Serialization-Format-Options; every response in the cache carries them
\* (they are set before it is stored); a header of the same name that the
\* CRUD method's result supplies is replaced by the standard value.
C17_StandardHeaders ==
    /\ (Dispatched /\ disp.out.kind # "raise") => StandardHeaders(disp.out)
    /\ \A r \in DOMAIN cache : StandardHeaders(cache[r])
    /\ (Dispatched /\ disp.trace.cached) => cache[disp.request] = disp.out

\* A response served from the cache for a resource whose CRUD methods
\* supply a Cache-Control header of their own.
C17_Witness ==
    /\ Dispatched
    /\ disp.trace.hit
    /\ resource.returns.kind = "HeadersResult"
    /\ "Cache-Control" \in DOMAIN resource.returns.http_headers
    /\ resource.returns.http_headers["Cache-Control"] = "no-cache"
    /\ disp.out.headers["Cache-Control"] = "must-revalidate, private"

\* The body of a raw response, as get_result takes it out.
Container(response) == [kind |-> "_container", content |-> response.name]

\* C18: get_result reduces what the CRUD method returned to (payload,
\* headers, status): a HeadersResult gives exactly its own headers and its
\* own status, also when it wraps a raw response; a raw response gives its
\* status and its body and no headers; any other value gives itself, 200 and
\* no headers.
C18_ResultTriple ==
    (Dispatched /\ resource.cls = "CustomResource" /\ disp.trace.invoked # "none")
    => /\ disp.gr.kind = "triple"
       /\ LET v == resource.returns
               t == disp.gr.triple
           IN  CASE v.kind = "HeadersResult" ->
                        /\ t.http_headers = v.http_headers
                        /\ t.status_code = v.status_code
                        /\ t.result = IF v.result.kind = "rc" THEN Container(v.result)
                                      ELSE v.result
                 [] v.kind = "rc" ->
                        /\ t.http_headers = <<>>
                        /\ t.status_code = v.status
                        /\ t.result = Container(v)
                 [] OTHER ->
                        /\ t.http_headers = <<>>
                        /\ t.status_code = 200
                        /\ t.result = v

\* What the code returns: as claimed, except that a raw response wrapped in
\* a HeadersResult gives its own status, not the one of the HeadersResult.
C18_AsCoded ==
    (Dispatched /\ resource.cls = "CustomResource" /\ disp.trace.invoked # "none")
    => /\ disp.gr.kind = "triple"
       /\ LET v == resource.returns
               t == disp.gr.triple
           IN  CASE v.kind = "HeadersResult" ->
                        /\ t.http_headers = v.http_headers
                        /\ t.status_code = IF v.result.kind = "rc" THEN v.result.status
                                           ELSE v.status_code
                        /\ t.result = IF v.result.kind = "rc" THEN Container(v.result)
                                      ELSE v.result
                 [] v.kind = "rc" ->
                        /\ t.http_headers = <<>>
                        /\ t.status_code = v.status
                        /\ t.result = Container(v)
                 [] OTHER ->
                        /\ t.http_headers = <<>>
                        /\ t.status_code = 200
                        /\ t.result = v

(***************************************************************************)
(* Claims about the permission model, checked under SpecPerm.              *)
(***************************************************************************)

\* The verbs C10 says get_allowed_methods returns: those in allowed_methods,
\* in the restriction set when one is given, whose validator returns true.
PermittedVerbs ==
    {v \in perm.allowed_methods \cap KnownVerbs :
        /\ am.restricted_methods.given => v \in am.restricted_methods.methods
        /\ has_permission(perm, all_permissions_validators[v], am.user, am.obj)}

\* C10: get_allowed_methods returns exactly the verbs of allowed_methods that
\* are in the restriction set when one is given and whose validator returns
\* true for (caller, object); no verb outside allowed_methods, none twice.
C10_AllowedMethodsExact ==
    am.done
    => /\ am.out.kind = "list"
       /\ Range(am.out.list) = PermittedVerbs
       /\ Len(am.out.list) = Cardinality(Range(am.out.list))

\* What the code does on the declarations that name the four verbs only: the
\* claimed set, except that an empty restriction set restricts nothing.
C10_AsCoded ==
    (am.done /\ perm.allowed_methods \subseteq KnownVerbs)
    => /\ am.out.kind = "list"
       /\ Len(am.out.list) = Cardinality(Range(am.out.list))
       /\ Range(am.out.list) =
            {v \in perm.allowed_methods :
                /\ Truthy(am.restricted_methods) => v \in am.restricted_methods.methods
                /\ has_permission(perm, all_permissions_validators[v], am.user, am.obj)}

\* C11: for every restriction set given, the empty one included, the keys of
\* the mapping get_permission_validators returns are allowed_methods \cap
\* restriction set \cap {GET, POST, PUT, DELETE}; all allowed verbs are
\* returned only when no restriction set is given; each key maps to the
\* validator of its own verb.
C11_ValidatorKeys ==
    am.done
    => /\ am.pv.kind = "dict"
       /\ DOMAIN am.pv.map =
            IF am.restricted_methods.given
            THEN perm.allowed_methods \cap am.restricted_methods.methods \cap KnownVerbs
            ELSE perm.allowed_methods \cap KnownVerbs
       /\ \A v \in DOMAIN am.pv.map :
            am.pv.map[v] = CASE v = "GET" -> "has_read_permission"
                             [] v = "POST" -> "has_create_permission"
                             [] v = "PUT" -> "has_update_permission"
                             [] v = "DELETE" -> "has_delete_permission"

\* What the code returns when every verb it has to map is one of the four:
\* the claimed mapping, except that an empty restriction set restricts
\* nothing.
C11_AsCoded ==
    (am.done /\ am.pv.kind = "dict")
    => /\ DOMAIN am.pv.map =
            IF Truthy(am.restricted_methods)
            THEN perm.allowed_methods \cap am.restricted_methods.methods
            ELSE perm.allowed_methods
       /\ DOMAIN am.pv.map \subseteq KnownVerbs
       /\ \A v \in DOMAIN am.pv.map :
            am.pv.map[v] = CASE v = "GET" -> "has_read_permission"
                             [] v = "POST" -> "has_create_permission"
                             [] v = "PUT" -> "has_update_permission"
                             [] v = "DELETE" -> "has_delete_permission"

\* C12: get_permission_validators and get_allowed_methods have no error
\* outcome: a verb that is not one of GET/POST/PUT/DELETE, in allowed_methods
\* or in the restriction set, is left out of the result and no exception is
\* raised.
C12_NoErrorOutcome ==
    am.done
    => /\ am.pv.kind = "dict"
       /\ DOMAIN am.pv.map \subseteq KnownVerbs
       /\ am.out.kind = "list"
       /\ Range(am.out.list) \subseteq KnownVerbs

\* What the code does: KeyError is raised exactly when a verb without
\* validator is in allowed_methods and the restriction set, if it counts,
\* names it too; a verb without validator named by the restriction set alone
\* is left out.
C12_AsCoded ==
    am.done
    => LET unknown == perm.allowed_methods \ KnownVerbs
           mapped == IF Truthy(am.restricted_methods)
                     THEN unknown \cap am.restricted_methods.methods ELSE unknown
       IN  IF mapped # {}
           THEN am.pv = Raise("KeyError") /\ am.out = Raise("KeyError")
           ELSE am.pv.kind = "dict" /\ am.out.kind = "list"

(***************************************************************************)
(* Claims about get_fields, checked under SpecFields.                      *)
(***************************************************************************)

\* The names a header value lists: its maximal comma-free pieces.
Pieces(h) ==
    {SubSeq(h, i, j) : <<i, j>> \in
        {ij \in (1..(Len(h) + 1)) \X (0..Len(h)) :
            /\ ij[1] <= ij[2] + 1
            /\ \A k \in ij[1]..ij[2] : h[k] # ","
            /\ (ij[1] = 1 \/ h[ij[1] - 1] = ",")
            /\ (ij[2] = Len(h) \/ h[ij[2] + 1] = ",")}}

HeaderNames(META, key) == IF key \in DOMAIN META THEN Pieces(META[key]) ELSE {}

WithoutHeader(META, key) == [k \in DOMAIN META \ {key} |-> META[k]]

\* C3: get_fields returns only field names of the declared allowed fields
\* (self.fields), for every combination of headers, result kind and defaults.
C3_OnlyAllowedFields == gf.done => Range(gf.out) \subseteq Range(decl.fields)

\* C9: get_fields returns exactly X \cap A when that is non-empty, and
\* otherwise the defaults of the result kind plus E \cap A; names outside A
\* are dropped without error, and an X-Fields header naming no allowed field
\* behaves as an absent one.
C9_FieldSelection ==
    gf.done =>
        LET A == Range(decl.fields)
            X == HeaderNames(gf.META, "HTTP_X_FIELDS")
            E == HeaderNames(gf.META, "HTTP_X_EXTRA_FIELDS")
            D == Range(IF gf.kind = "QuerySet" THEN decl.default_list_fields
                       ELSE decl.default_obj_fields)
        IN  /\ gf.out \in Seq(FieldNames)
            /\ Len(gf.out) = Cardinality(Range(gf.out))
            /\ Range(gf.out) = IF X \cap A # {} THEN X \cap A ELSE D \cup (E \cap A)
            /\ X \cap A = {}
               => gf.out = get_fields(decl, WithoutHeader(gf.META, "HTTP_X_FIELDS"), gf.kind)

\* X-Fields: a,z with z not allowed and a default field that X does not name.
C9_Witness ==
    /\ gf.done
    /\ decl.fields = <<<<"a">>>>
    /\ decl.default_obj_fields = <<<<"b">>>>
    /\ gf.kind = "object"
    /\ gf.META = [HTTP_X_FIELDS |-> <<"a", ",", "b">>, HTTP_X_EXTRA_FIELDS |-> <<"b">>]
    /\ gf.out = <<<<"a">>>>

(***************************************************************************)
(* Claims about the default CRUD behaviours, checked under SpecStore.      *)
(***************************************************************************)

\* C2: when create is called twice in a row with the same field values on a
\* table holding no record with those values, the first call returns the new
\* record, the second returns DUPLICATE_ENTRY and writes nothing, and the
\* table then holds exactly one record with those values.
C2_CreateTwice ==
    (/\ prev.op = "create"
     /\ last.op = "create"
     /\ last.data = prev.data
     /\ Matching(prev.pre, prev.data) = {})
    => /\ prev.result.kind = "inst"
       /\ prev.result.rec \notin prev.pre
       /\ prev.result.rec \in Matching(last.pre, prev.data)
       /\ last.result = rc("DUPLICATE_ENTRY")
       /\ store = last.pre
       /\ Cardinality(Matching(store, last.data)) = 1

C2_Witness ==
    /\ prev.op = "create"
    /\ last.op = "create"
    /\ last.data = prev.data
    /\ Matching(prev.pre, prev.data) = {}
    /\ prev.pre # {}
    /\ "id" \notin DOMAIN last.data
    /\ last.result = rc("DUPLICATE_ENTRY")

\* C4: exists never raises; it returns true iff at least one record matches
\* the criteria, also when two or more records match.
C4_ExistsNeverRaises ==
    last.op = "exists"
    => /\ last.result.kind = "bool"
       /\ last.result.val = (Matching(last.pre, last.kwargs) # {})

\* What exists does do: it answers as claimed when at most one record
\* matches, and raises MultipleObjectsReturned when two or more match.
C4_ExistsAsCoded ==
    last.op = "exists"
    => IF Cardinality(Matching(last.pre, last.kwargs)) > 1
       THEN last.result = Raise("MultipleObjectsReturned")
       ELSE /\ last.result.kind = "bool"
            /\ last.result.val = (Matching(last.pre, last.kwargs) # {})

\* C7: update without the primary key among its keyword parameters returns
\* BAD_REQUEST and leaves the table unchanged, whatever the body holds.
C7_UpdateWithoutPk ==
    (last.op = "update" /\ pkfield \notin DOMAIN last.kwargs)
    => /\ last.result = rc("BAD_REQUEST")
       /\ store = last.pre

C7_Witness ==
    /\ last.op = "update"
    /\ pkfield \notin DOMAIN last.kwargs
    /\ DOMAIN last.data = {"id", "name"}
    /\ last.pre # {}
    /\ last.result = rc("BAD_REQUEST")

\* C14: delete removes a record only on a unique match: with exactly one
\* record matching the criteria that record and no other is removed and
\* DELETED is returned; with two or more matches DUPLICATE_ENTRY is returned
\* and the table is unchanged; no call removes more than one record.
C14_DeleteUniqueMatch ==
    last.op = "delete"
    => LET m == Matching(last.pre, last.kwargs)
       IN  /\ Cardinality(m) = 1
                => (store = last.pre \ m /\ last.result = rc("DELETED"))
           /\ Cardinality(m) >= 2
                => (store = last.pre /\ last.result = rc("DUPLICATE_ENTRY"))
           /\ store \subseteq last.pre
           /\ Cardinality(last.pre \ store) <= 1

\* Both cases happen: a delete whose criteria two records match, after a
\* delete that removed one record of several.
C14_Witness ==
    /\ last.op = "delete"
    /\ Cardinality(Matching(last.pre, last.kwargs)) >= 2
    /\ last.result = rc("DUPLICATE_ENTRY")
    /\ store = last.pre

C14_WitnessUnique ==
    /\ last.op = "delete"
    /\ Cardinality(Matching(last.pre, last.kwargs)) = 1
    /\ Cardinality(last.pre) >= 2
    /\ last.result = rc("DELETED")
    /\ Cardinality(store) = Cardinality(last.pre) - 1

\* The record a successful update fetched, and that record with the pairs of
\* the body applied.
Fetched == CHOOSE r \in last.pre : r.id = last.kwargs[pkfield]

Applied ==
    [k \in DOMAIN Fetched |->
        IF k \in DOMAIN last.data THEN last.data[k] ELSE Fetched[k]]

\* C15: a successful update applies every pair of the body to the record
\* fetched by the key, persists it and returns ALL_OK; every other record is
\* unchanged and so is the number of records, for every body, one naming the
\* primary-key field included.
C15_UpdateFrame ==
    (last.op = "update" /\ last.result = rc("ALL_OK"))
    => /\ store = (last.pre \ {Fetched}) \cup {Applied}
       /\ \A r \in last.pre \ {Fetched} : r \in store
       /\ Cardinality(store) = Cardinality(last.pre)

\* What the code does: the instance with the pairs applied is saved under the
\* pk it has then. With a body that leaves the pk alone that is the claimed
\* effect; with a body that sets another pk the fetched row stays as it was
\* and the row of the other pk is written.
C15_AsCoded ==
    (last.op = "update" /\ pkfield \in DOMAIN last.kwargs
        /\ Matching(last.pre, [id |-> last.kwargs[pkfield]]) # {})
    => /\ last.result = rc("ALL_OK")
       /\ store = {r \in last.pre : r.id # Applied.id} \cup {Applied}
       /\ Applied.id = Fetched.id
            => /\ store = (last.pre \ {Fetched}) \cup {Applied}
               /\ Cardinality(store) = Cardinality(last.pre)

\* C16: read never modifies the table. Without the pk among its keyword
\* parameters it returns a collection of exactly the records matching the
\* criteria, and each of two iterations of it, with no write in between,
\* yields those records; with the pk present it returns the single record
\* of that key.
C16_ReadPure ==
    last.op = "read"
    => /\ store = last.pre
       /\ pkfield \notin DOMAIN last.kwargs
            => /\ last.result.kind \notin {"inst", "rc"}
               /\ Matching(last.pre, last.result.crit) = Matching(last.pre, last.kwargs)
               /\ \A i \in DOMAIN iterated :
                    iterated[i] = Matching(last.pre, last.kwargs)
       /\ (/\ pkfield \in DOMAIN last.kwargs
           /\ Matching(last.pre, [id |-> last.kwargs[pkfield]]) # {})
            => /\ last.result.kind = "inst"
               /\ last.result.rec \in last.pre
               /\ last.result.rec.id = last.kwargs[pkfield]

\* A filtered collection of some but not all records, iterated twice.
C16_Witness ==
    /\ last.op = "read"
    /\ pkfield \notin DOMAIN last.kwargs
    /\ Len(iterated) >= 2
    /\ iterated[1] # {}
    /\ iterated[1] # last.pre
    /\ iterated[2] = iterated[1]

\* C8: read and update with a primary key that no record has return
\* NOT_FOUND, delete with criteria that no record matches returns NOT_HERE,
\* a sentinel other than NOT_FOUND, and the table is unchanged in all three.
C8_NoMatchSentinels ==
    /\ (/\ last.op \in {"read", "update"}
        /\ pkfield \in DOMAIN last.kwargs
        /\ Matching(last.pre, [id |-> last.kwargs[pkfield]]) = {})
       => (last.result = rc("NOT_FOUND") /\ store = last.pre)
    /\ (last.op = "delete" /\ Matching(last.pre, last.kwargs) = {})
       => /\ last.result = rc("NOT_HERE")
          /\ last.result.name # rc("NOT_FOUND").name
          /\ store = last.pre

C8_Witness ==
    /\ last.op = "delete"
    /\ last.pre # {}
    /\ last.kwargs # <<>>
    /\ Matching(last.pre, last.kwargs) = {}
    /\ prev.op = "create"
    /\ last.result = rc("NOT_HERE")

====
